---- MODULE Spec2Model ----
\* virial.py: fit the tail of a radial distribution function g(r) to a model
\* pair potential, splice the model tail onto the measured w(r) = -ln g(r)
\* and integrate the combined curve to the second virial coefficient.
\*
\* Numbers.
\*   r        distances are integers (multiples of one grid unit).
\*   floats   g, exp(-w) and the virial results are exact rationals <<n, d>>
\*            with d > 0 and gcd(n, d) = 1; the IEEE specials numpy produces
\*            are <<0,0>> (nan), <<1,0>> (+inf) and <<-1,0>> (-inf).
\*   logs     w = -ln g is a real of the form  e1*ln 2 + e2*ln 3 + e3*ln 5 +
\*            e4*ln 7, held as [cls |-> "fin", e |-> <<e1,e2,e3,e4>>]; the
\*            logarithms of distinct primes are linearly independent over the
\*            integers, so two such records are the same real iff they are
\*            equal.  cls is "inf", "-inf" or "nan" for the specials.
\*   B2       hs, tot and the integrand are in units of pi/3 (so 2*pi is 6 and
\*            2*pi/3 is 2); 'mlmol/g2' is in units of (pi/3)*N_A*1e-24.
EXTENDS Integers, Sequences, FiniteSets, TLC

VARIABLES pc, argv, args, infile, rdf, fitcall, r, g, a, w, B2, summary, outfile

vars == <<pc, argv, args, infile, rdf, fitcall, r, g, a, w, B2, summary, outfile>>

\* ---------------------------------------------------------------- bounds
MaxR == 4
MaxLen == 3

\* ------------------------------------------------------ float arithmetic
Abs(x) == IF x < 0 THEN -x ELSE x

Sgn(x) == IF x < 0 THEN -1 ELSE IF x = 0 THEN 0 ELSE 1

RECURSIVE GCD(_, _)
GCD(x, y) == IF y = 0 THEN x ELSE GCD(y, x % y)

\* the float n/d, d >= 0, in canonical form
Float(n, d) ==
  IF d = 0 THEN <<Sgn(n), 0>>
  ELSE LET c == GCD(Abs(n), d) IN <<n \div c, d \div c>>

NaN == <<0, 0>>
PInf == <<1, 0>>
FZero == <<0, 1>>
FOne == <<1, 1>>
FInt(k) == <<k, 1>>

FAdd(x, y) ==
  IF x[2] = 0 /\ y[2] = 0 THEN (IF x[1] = y[1] THEN x ELSE NaN)
  ELSE IF x[2] = 0 THEN x
  ELSE IF y[2] = 0 THEN y
  ELSE LET c == GCD(x[2], y[2])
       IN Float(x[1] * (y[2] \div c) + y[1] * (x[2] \div c), (x[2] \div c) * y[2])

FNeg(x) == <<-x[1], x[2]>>

FSub(x, y) == FAdd(x, FNeg(y))

FMul(x, y) ==
  IF x[2] = 0 \/ y[2] = 0 THEN Float(x[1] * y[1], 0)
  ELSE LET c1 == GCD(Abs(x[1]), y[2])
           c2 == GCD(Abs(y[1]), x[2])
       IN Float((x[1] \div c1) * (y[1] \div c2), (x[2] \div c2) * (y[2] \div c1))

\* 1/x; numpy gives inf for 1/0 and 0 for 1/inf
FInv(x) ==
  IF x[2] = 0 THEN (IF x[1] = 0 THEN NaN ELSE FZero)
  ELSE IF x[1] = 0 THEN PInf
  ELSE <<Sgn(x[1]) * x[2], Abs(x[1])>>

FDiv(x, y) == FMul(x, FInv(y))

FPos(x) == x[1] > 0 /\ x[2] > 0

RECURSIVE IPow(_, _)
IPow(b, k) == IF k = 0 THEN 1 ELSE b * IPow(b, k - 1)

\* -------------------------------------------------------- log arithmetic
Primes == <<2, 3, 5, 7>>

ZeroE == [i \in DOMAIN Primes |-> 0]

Fin(e) == [cls |-> "fin", e |-> e]
WInf == [cls |-> "inf", e |-> ZeroE]
WNegInf == [cls |-> "-inf", e |-> ZeroE]
WNaN == [cls |-> "nan", e |-> ZeroE]
WZero == Fin(ZeroE)
Ln2 == Fin([i \in DOMAIN Primes |-> IF i = 1 THEN 1 ELSE 0])

\* the multiplicity of the prime p in k >= 1
RECURSIVE Mult(_, _)
Mult(k, p) == IF k % p = 0 THEN 1 + Mult(k \div p, p) ELSE 0

Exps(k) == [i \in DOMAIN Primes |-> Mult(k, Primes[i])]

\* np.log
log(x) ==
  IF x[2] = 0 THEN (IF x[1] = 1 THEN WInf ELSE WNaN)
  ELSE IF x[1] < 0 THEN WNaN
  ELSE IF x[1] = 0 THEN WNegInf
  ELSE Fin([i \in DOMAIN Primes |-> Exps(x[1])[i] - Exps(x[2])[i]])

WNeg(x) ==
  IF x.cls = "fin" THEN Fin([i \in DOMAIN Primes |-> -x.e[i]])
  ELSE IF x.cls = "inf" THEN WNegInf
  ELSE IF x.cls = "-inf" THEN WInf
  ELSE WNaN

WAdd(x, y) ==
  IF x.cls = "nan" \/ y.cls = "nan" THEN WNaN
  ELSE IF x.cls = "fin" /\ y.cls = "fin"
    THEN Fin([i \in DOMAIN Primes |-> x.e[i] + y.e[i]])
  ELSE IF x.cls = "fin" THEN y
  ELSE IF y.cls = "fin" THEN x
  ELSE IF x.cls = y.cls THEN x
  ELSE WNaN

WSub(x, y) == WAdd(x, WNeg(y))

RECURSIVE ProdPow(_, _)
\* the product of Primes[i]^max(s*e[i], 0) over i <= Len(e)
ProdPow(e, s) ==
  IF e = <<>> THEN 1
  ELSE LET k == Len(e)
           x == s * e[k]
       IN ProdPow(SubSeq(e, 1, k - 1), s) * (IF x > 0 THEN IPow(Primes[k], x) ELSE 1)

\* np.exp
exp(x) ==
  IF x.cls = "fin" THEN <<ProdPow(x.e, 1), ProdPow(x.e, -1)>>
  ELSE IF x.cls = "inf" THEN PInf
  ELSE IF x.cls = "-inf" THEN FZero
  ELSE NaN

\* ----------------------------------------------------------- sequences
Last(s) == s[Len(s)]

RECURSIVE SeqMin(_)
SeqMin(s) ==
  IF Len(s) = 1 THEN s[1]
  ELSE LET m == SeqMin(Tail(s)) IN IF s[1] <= m THEN s[1] ELSE m

RECURSIVE SeqMax(_)
SeqMax(s) ==
  IF Len(s) = 1 THEN s[1]
  ELSE LET m == SeqMax(Tail(s)) IN IF s[1] >= m THEN s[1] ELSE m

\* numpy boolean-mask indexing x[m]
RECURSIVE Masked(_, _)
Masked(x, m) ==
  IF x = <<>> THEN <<>>
  ELSE (IF m[1] THEN <<x[1]>> ELSE <<>>) \o Masked(Tail(x), Tail(m))

\* ------------------------------------------ class RadialDistributionFunction
NoRdf == [r |-> <<>>, g |-> <<>>, w |-> <<>>]

Column(d, k) == [i \in DOMAIN d |-> d[i][k]]

NegLog(gs) == [i \in DOMAIN gs |-> WNeg(log(gs[i]))]

\* __init__ on a table with two columns
RadialDistributionFunction(d) ==
  [r |-> Column(d, 1), g |-> Column(d, 2), w |-> NegLog(Column(d, 2))]

\* slice with the bounds excluded
slice_exclusive(self, rmin, rmax) ==
  LET m == [i \in DOMAIN self.r |-> self.r[i] > rmin /\ self.r[i] < rmax]
  IN <<Masked(self.r, m), Masked(self.g, m)>>

slice(self, rmin, rmax) ==
  LET m == [i \in DOMAIN self.r |-> self.r[i] >= rmin /\ self.r[i] <= rmax]
  IN <<Masked(self.r, m), Masked(self.g, m)>>

normalizeVolume(self, dim) ==
  LET gn == [i \in DOMAIN self.g |-> FDiv(self.g[i], FInt(IPow(self.r[i], dim - 1)))]
  IN [self EXCEPT !.g = gn, !.w = NegLog(gn)]

\* ------------------------------------------------------ VirialCoefficient
HsCoef == 2
TwoPi == 6

\* np.trapz(y, x)
RECURSIVE trapz(_, _)
trapz(y, x) ==
  IF Len(x) < 2 THEN FZero
  ELSE FAdd(FDiv(FMul(FInt(x[2] - x[1]), FAdd(y[2], y[1])), FInt(2)),
            trapz(Tail(y), Tail(x)))

\* the integrand without the -1 of the Mayer function
Integrand_noone(rr, ww) ==
  [i \in DOMAIN rr |->
     FMul(FMul(FInt(-TwoPi), exp(WNeg(ww[i]))), FInt(rr[i] * rr[i]))]

Integrand(rr, ww) ==
  [i \in DOMAIN rr |->
     FMul(FMul(FInt(-TwoPi), FSub(exp(WNeg(ww[i])), FOne)), FInt(rr[i] * rr[i]))]

\* the converted field computed when either mass is positive
VirialCoefficient_or(rr, ww, mw) ==
  LET hs == FInt(HsCoef * IPow(SeqMin(rr), 3))
      tot == FAdd(hs, trapz(Integrand(rr, ww), rr))
      b2 == [hs |-> hs, tot |-> tot, reduced |-> FDiv(tot, hs),
             hsrange |-> <<0, SeqMin(rr)>>, range |-> <<0, SeqMax(rr)>>]
  IN IF mw[1] > 0 \/ mw[2] > 0
       THEN b2 @@ ("mlmol/g2" :> FDiv(FDiv(tot, FInt(mw[1])), FInt(mw[2])))
       ELSE b2

VirialCoefficient(rr, ww, mw) ==
  LET hs == FInt(HsCoef * IPow(SeqMin(rr), 3))
      tot == FAdd(hs, trapz(Integrand(rr, ww), rr))
      b2 == [hs |-> hs, tot |-> tot, reduced |-> FDiv(tot, hs),
             hsrange |-> <<0, SeqMin(rr)>>, range |-> <<0, SeqMax(rr)>>]
  IN IF mw[1] > 0 /\ mw[2] > 0
       THEN b2 @@ ("mlmol/g2" :> FDiv(FDiv(tot, FInt(mw[1])), FInt(mw[2])))
       ELSE b2

\* ------------------------------------------------------- the main program
DhExpr == "lB * z1 * z2 / r * np.exp( -r/a[0] ) + a[1]"
DhsinhExpr == "lB * z1 * z2 * sinh(a[1]/a[0])**2 / r * np.exp(-r/a[0]) + a[2]"
ZeroExpr == "r*0 + a[0]"
\* a user-defined potential: a constant a[0] plus the shift a[1]
UserExpr == "r*0 + a[0] + a[1]"

\* predefined potentials [ w(r)/kT, [guess parameters] ]
potentiallist ==
  [dh |-> <<DhExpr, <<30, 0>>>>,
   dhsinh |-> <<DhsinhExpr, <<30, 10, 0>>>>,
   zero |-> <<ZeroExpr, <<0>>>>]

None == <<>>

\* the number of parameters the expression indexes
NParams(expr) ==
  IF expr = ZeroExpr THEN 1 ELSE IF expr = DhsinhExpr THEN 3 ELSE 2

\* the function the exec statement creates, at one r > 0.  The valencies are
\* the defaults z1 = z2 = 0, so the Coulomb term lB*z1*z2/r*exp(-r/a[0]) of
\* dh is 0 and leaves the shift a[1].
potAt(expr, x, p) ==
  IF expr = ZeroExpr THEN p[1]
  ELSE IF expr = DhExpr THEN p[2]
  ELSE WAdd(p[1], p[2])

pot(expr, xs, p) == [i \in DOMAIN xs |-> potAt(expr, xs[i], p)]

\* sinh is not a name of the module's namespace: calling dhsinh raises NameError
Callable(expr) == expr # DhsinhExpr

\* the values a fitted parameter takes in the model
AVals == {WZero, Ln2}

\* curve_fit(f, xdata, ydata, p0)[0]: the set of parameter vectors it may
\* return; empty when it raises (p0 None with a *a signature, f raising, more
\* parameters than points).  A non-convergence error is possible on any input.
curve_fit(f, xdata, ydata, p0) ==
  IF p0 = None \/ ~Callable(f) \/ Len(p0) < NParams(f) \/ Len(xdata) < Len(p0)
    THEN {}
    ELSE [1..Len(p0) -> AVals]

\* arange with the end point included
arange_closed(start, stop, step) ==
  LET n == IF stop >= start THEN (stop - start) \div step + 1 ELSE 0
  IN [k \in 1..n |-> start + (k - 1) * step]

\* np.arange(start, stop, step), step > 0
arange(start, stop, step) ==
  LET n == IF stop > start THEN (stop - start + step - 1) \div step ELSE 0
  IN [k \in 1..n |-> start + (k - 1) * step]

NmFactor == 10

Get(d, key, default) == IF key \in DOMAIN d THEN d[key] ELSE default

\* lines 97-101: resolve the potential
ResolvePot ==
  /\ pc = "resolve"
  /\ args' = IF args.pot \in DOMAIN potentiallist
               THEN [args EXCEPT !.guess = potentiallist[args.pot][2],
                                 !.pot = potentiallist[args.pot][1]]
               ELSE args
  /\ pc' = "load"
  /\ UNCHANGED <<argv, infile, rdf, fitcall, r, g, a, w, B2, summary, outfile>>

\* a loader that rejects a series with a non-positive g
Load_strict ==
  /\ pc = "load"
  /\ IF /\ infile.exists
        /\ Len(infile.d[1]) = 2
        /\ \A i \in DOMAIN infile.d : FPos(infile.d[i][2])
       THEN /\ rdf' = RadialDistributionFunction(infile.d)
            /\ pc' = "convert"
       ELSE /\ rdf' = rdf
            /\ pc' = "error"
  /\ UNCHANGED <<argv, args, infile, fitcall, r, g, a, w, B2, summary, outfile>>

\* lines 103-107 and __init__: load g(r) from disk
Load ==
  /\ pc = "load"
  /\ IF infile.exists /\ Len(infile.d[1]) = 2
       THEN /\ rdf' = RadialDistributionFunction(infile.d)
            /\ pc' = "convert"
       ELSE /\ rdf' = rdf
            /\ pc' = "error"
  /\ UNCHANGED <<argv, args, infile, fitcall, r, g, a, w, B2, summary, outfile>>

\* line 110: convert to angstrom
Rescale ==
  /\ pc = "convert"
  /\ rdf' = IF args.nm
              THEN [rdf EXCEPT !.r = [i \in DOMAIN rdf.r |-> NmFactor * rdf.r[i]]]
              ELSE rdf
  /\ pc' = "normalize"
  /\ UNCHANGED <<argv, args, infile, fitcall, r, g, a, w, B2, summary, outfile>>

\* normalization by the powers of r as loaded, the order of the two steps swapped
Normalize_unscaled ==
  /\ pc = "normalize"
  /\ LET raw == [rdf EXCEPT !.r = Column(infile.d, 1)]
         n == IF args.norm = "2d" THEN normalizeVolume(raw, 2)
              ELSE IF args.norm = "3d" THEN normalizeVolume(raw, 3)
              ELSE raw
     IN rdf' = [n EXCEPT !.r = rdf.r]
  /\ pc' = "slice"
  /\ UNCHANGED <<argv, args, infile, fitcall, r, g, a, w, B2, summary, outfile>>

\* lines 111-112: normalize volume
Normalize ==
  /\ pc = "normalize"
  /\ rdf' = IF args.norm = "2d" THEN normalizeVolume(rdf, 2)
            ELSE IF args.norm = "3d" THEN normalizeVolume(rdf, 3)
            ELSE rdf
  /\ pc' = "slice"
  /\ UNCHANGED <<argv, args, infile, fitcall, r, g, a, w, B2, summary, outfile>>

\* line 115: cut out range
Slice ==
  /\ pc = "slice"
  /\ LET s == slice(rdf, args.range[1], args.range[2])
     IN r' = s[1] /\ g' = s[2]
  /\ pc' = "fit"
  /\ UNCHANGED <<argv, args, infile, rdf, fitcall, a, w, B2, summary, outfile>>

\* line 116: fit
Fit ==
  /\ pc = "fit"
  /\ fitcall' = [f |-> args.pot, xdata |-> r, ydata |-> NegLog(g), p0 |-> args.guess]
  /\ \/ \E p \in curve_fit(args.pot, r, NegLog(g), args.guess) :
          a' = p /\ pc' = "merge"
     \/ a' = a /\ pc' = "error"
  /\ UNCHANGED <<argv, args, infile, rdf, r, g, w, B2, summary, outfile>>

\* shift-only mode shifting the stored w in place
Merge_inplace ==
  /\ pc = "merge"
  /\ IF args.shiftonly
       THEN /\ r' = rdf.r
            /\ w' = [i \in DOMAIN rdf.w |-> WSub(rdf.w[i], Last(a))]
            /\ rdf' = [rdf EXCEPT !.w = w']
            /\ UNCHANGED a
       ELSE LET dr == rdf.r[2] - rdf.r[1]
                ws == [i \in DOMAIN rdf.w |-> WSub(rdf.w[i], Last(a))]
                a0 == [a EXCEPT ![Len(a)] = WZero]
                shead == [i \in DOMAIN rdf.r |-> rdf.r[i] <= args.range[1]]
                rtail == arange(args.range[1], 4 * args.range[2], dr)
            IN /\ rdf' = [rdf EXCEPT !.w = ws]
               /\ a' = a0
               /\ r' = Masked(rdf.r, shead) \o rtail
               /\ w' = Masked(ws, shead) \o pot(args.pot, rtail, a0)
  /\ pc' = "virial"
  /\ UNCHANGED <<argv, args, infile, fitcall, g, B2, summary, outfile>>

\* the model tail evaluated before the shift parameter is set to zero
Merge_keepshift ==
  /\ pc = "merge"
  /\ IF args.shiftonly
       THEN /\ r' = rdf.r
            /\ w' = [i \in DOMAIN rdf.w |-> WSub(rdf.w[i], Last(a))]
            /\ UNCHANGED <<rdf, a>>
       ELSE LET dr == rdf.r[2] - rdf.r[1]
                ws == [i \in DOMAIN rdf.w |-> WSub(rdf.w[i], Last(a))]
                a0 == [a EXCEPT ![Len(a)] = WZero]
                shead == [i \in DOMAIN rdf.r |-> rdf.r[i] <= args.range[1]]
                rtail == arange(args.range[1], 4 * args.range[2], dr)
            IN /\ rdf' = [rdf EXCEPT !.w = ws]
               /\ a' = a0
               /\ r' = Masked(rdf.r, shead) \o rtail
               /\ w' = Masked(ws, shead) \o pot(args.pot, rtail, a)
  /\ pc' = "virial"
  /\ UNCHANGED <<argv, args, infile, fitcall, g, B2, summary, outfile>>

\* lines 125-135: merge fitted data and model tail if needed
Merge ==
  /\ pc = "merge"
  /\ IF args.shiftonly
       THEN /\ r' = rdf.r
            /\ w' = [i \in DOMAIN rdf.w |-> WSub(rdf.w[i], Last(a))]
            /\ UNCHANGED <<rdf, a>>
       ELSE LET dr == rdf.r[2] - rdf.r[1]
                ws == [i \in DOMAIN rdf.w |-> WSub(rdf.w[i], Last(a))]
                a0 == [a EXCEPT ![Len(a)] = WZero]
                shead == [i \in DOMAIN rdf.r |-> rdf.r[i] <= args.range[1]]
                rtail == arange(args.range[1], 4 * args.range[2], dr)
            IN /\ rdf' = [rdf EXCEPT !.w = ws]
               /\ a' = a0
               /\ r' = Masked(rdf.r, shead) \o rtail
               /\ w' = Masked(ws, shead) \o pot(args.pot, rtail, a0)
  /\ pc' = "virial"
  /\ UNCHANGED <<argv, args, infile, fitcall, g, B2, summary, outfile>>

\* lines 139-142: the printed summary of a virial result
Summary(b2) ==
  [B2hs |-> <<b2["hs"], b2["hsrange"]>>,
   B2 |-> <<b2["tot"], Get(b2, "mlmol/g2", <<"NaN">>), b2["range"]>>,
   reduced |-> b2["reduced"]]

\* lines 137-142: virial coefficient
Virial ==
  /\ pc = "virial"
  /\ B2' = VirialCoefficient(r, w, args.mw)
  /\ summary' = Summary(B2')
  /\ pc' = "save"
  /\ UNCHANGED <<argv, args, infile, rdf, fitcall, r, g, a, w, outfile>>

\* lines 153-155: save final pmf to disk
Save ==
  /\ pc = "save"
  /\ outfile' = [i \in DOMAIN r |-> <<r[i], w[i], exp(WNeg(w[i]))>>]
  /\ pc' = "done"
  /\ UNCHANGED <<argv, args, infile, rdf, fitcall, r, g, a, w, B2, summary>>

\* ----------------------------------------------------------------- inputs
\* the strictly increasing r grids with at least two points in 1..MaxR
Grids ==
  {rs \in UNION {[1..n -> 1..MaxR] : n \in 2..MaxR} :
     \A i \in 1..(Len(rs) - 1) : rs[i] < rs[i + 1]}

Tables(RG, GV) ==
  UNION {{[i \in DOMAIN rs |-> <<rs[i], gs[i]>>] : gs \in [DOMAIN rs -> GV]} : rs \in RG}

File(d) == [exists |-> TRUE, d |-> d]
NoFile == [exists |-> FALSE, d |-> <<>>]
\* a table with three columns
BadFile == File(<<<<1, FOne, FOne>>, <<2, FOne, FOne>>>>)

GVals == {<<-1, 1>>, FZero, <<1, 2>>, FOne}

Args(nm, mw, so, norm, range, p, guess) ==
  [nm |-> nm, z |-> <<0, 0>>, mw |-> mw, shiftonly |-> so, norm |-> norm,
   range |-> range, pot |-> p, guess |-> guess]

Start(f, ar) ==
  /\ pc = "resolve"
  /\ infile = f
  /\ args = ar
  /\ argv = ar
  /\ rdf = NoRdf
  /\ fitcall = [f |-> "", xdata |-> <<>>, ydata |-> <<>>, p0 |-> None]
  /\ r = <<>> /\ g = <<>> /\ a = <<>> /\ w = <<>>
  /\ B2 = <<>> /\ summary = <<>> /\ outfile = <<>>

\* every grid and fit range, both merge modes, a two-parameter potential
InitGrid ==
  \E d \in Tables(Grids, {<<1, 2>>, FOne}), rmin \in 1..MaxR, rmax \in 1..MaxR,
     so \in BOOLEAN :
    Start(File(d), Args(FALSE, <<0, 0>>, so, "no", <<rmin, rmax>>, UserExpr, <<1, 0>>))

\* every g, unit and normalization; missing and malformed files
InitData ==
  \E f \in {File(d) : d \in Tables({<<1, 2, 3>>}, GVals)} \cup {NoFile, BadFile},
     nm \in BOOLEAN, norm \in {"no", "2d", "3d"}, range \in {<<2, 3>>, <<20, 30>>},
     so \in BOOLEAN :
    Start(f, Args(nm, <<0, 0>>, so, norm, range, "zero", None))

\* every potential selection, with and without a user guess
InitPot ==
  \E p \in {"dh", "dhsinh", "zero", UserExpr}, guess \in {None, <<5, 1>>},
     so \in BOOLEAN, mw \in {<<0, 0>>, <<2, 3>>} :
    Start(File(<<<<1, <<1, 2>>>>, <<2, FOne>>, <<3, FOne>>>>),
          Args(FALSE, mw, so, "no", <<2, 3>>, p, guess))

Init == InitGrid \/ InitData \/ InitPot

Next ==
  \/ ResolvePot
  \/ Load
  \/ Rescale
  \/ Normalize
  \/ Slice
  \/ Fit
  \/ Merge
  \/ Virial
  \/ Save

Spec == Init /\ [][Next]_vars

\* ------------------------------------------- slice on any loaded series
\* the main program at line 115, for every two-column file, sorted or not
Series ==
  {[i \in DOMAIN rs |-> <<rs[i], <<1, i>>>>] :
     rs \in UNION {[1..n -> 1..MaxR] : n \in 2..MaxLen}}

InitSlice ==
  \E d \in Series, rmin \in 0..(MaxR + 1), rmax \in 0..(MaxR + 1) :
    /\ pc = "slice"
    /\ infile = File(d)
    /\ args = Args(FALSE, <<0, 0>>, FALSE, "no", <<rmin, rmax>>, ZeroExpr, <<0>>)
    /\ argv = Args(FALSE, <<0, 0>>, FALSE, "no", <<rmin, rmax>>, "zero", None)
    /\ rdf = RadialDistributionFunction(d)
    /\ fitcall = [f |-> "", xdata |-> <<>>, ydata |-> <<>>, p0 |-> None]
    /\ r = <<>> /\ g = <<>> /\ a = <<>> /\ w = <<>>
    /\ B2 = <<>> /\ summary = <<>> /\ outfile = <<>>

SpecSlice == InitSlice /\ [][Slice]_vars

\* --------------------------------------- VirialCoefficient on any curve
\* the main program at line 138, for every combined curve and molar masses
MwVals == {-1, 0, 2}

Curves ==
  {<<rs, [i \in DOMAIN rs |-> WZero]>> :
     rs \in UNION {[1..n -> 0..MaxR] : n \in 1..MaxLen}}
  \cup UNION {{<<rs, ws>> : ws \in [DOMAIN rs -> {WZero, Ln2, WInf, WNaN}]} : rs \in Grids}

InitVirial ==
  \E c \in Curves, mw1 \in MwVals, mw2 \in MwVals :
    /\ pc = "virial"
    /\ r = c[1] /\ w = c[2]
    /\ args = Args(FALSE, <<mw1, mw2>>, TRUE, "no", <<0, MaxR>>, ZeroExpr, <<0>>)
    /\ argv = Args(FALSE, <<mw1, mw2>>, TRUE, "no", <<0, MaxR>>, "zero", None)
    /\ infile = NoFile
    /\ rdf = NoRdf
    /\ fitcall = [f |-> "", xdata |-> <<>>, ydata |-> <<>>, p0 |-> None]
    /\ g = <<>> /\ a = <<>>
    /\ B2 = <<>> /\ summary = <<>> /\ outfile = <<>>

SpecVirial == InitVirial /\ [][Virial]_vars

\* ------------------------------------------------------------ properties
Merged == pc \in {"virial", "save", "done"}
FullSplice == Merged /\ ~args.shiftonly
FitCalled == fitcall.f # ""
rmin_fit == args.range[1]
rmax_fit == args.range[2]

\* the indices of the stored points inside the fit range, and the k-th of a set
Kept == {i \in DOMAIN rdf.r : rmin_fit <= rdf.r[i] /\ rdf.r[i] <= rmax_fit}
Nth(S, k) == CHOOSE i \in S : Cardinality({j \in S : j <= i}) = k

\* C1: slice(rmin, rmax) returns exactly the points with rmin <= r <= rmax, in
\* their original order and each r with its own g; the result is empty when
\* rmin > max(r) or rmax < min(r); the stored series is left as loaded.
C1_SliceInclusive ==
  pc = "fit" =>
    /\ Len(r) = Cardinality(Kept)
    /\ Len(g) = Cardinality(Kept)
    /\ \A k \in 1..Len(r) :
         r[k] = rdf.r[Nth(Kept, k)] /\ g[k] = rdf.g[Nth(Kept, k)]
    /\ (rmin_fit > SeqMax(rdf.r) \/ rmax_fit < SeqMin(rdf.r)) => r = <<>> /\ g = <<>>
    /\ rdf = RadialDistributionFunction(infile.d)

\* a slice that keeps some points and drops others, with a point on each bound
C1_Witness ==
  /\ pc = "fit"
  /\ Len(r) >= 2
  /\ Len(r) < Len(rdf.r)
  /\ \E k \in DOMAIN r : r[k] = rmin_fit
  /\ \E k \in DOMAIN r : r[k] = rmax_fit

HeadLen == Cardinality({i \in DOMAIN rdf.r : rdf.r[i] <= rmin_fit})

\* C2 as stated: in full-splice mode with rmax_fit below the largest measured
\* r, the largest r of the combined curve is >= 4*rmax_fit.
C2_MaxReaches4Rmax ==
  (FullSplice /\ rmax_fit < SeqMax(rdf.r)) => SeqMax(r) >= 4 * rmax_fit

\* C2 amended: in full-splice mode with rmax_fit below the largest measured r,
\* the tail grid runs from rmin_fit in steps of dr and stops short of its end
\* point: the largest r of the combined curve is below 4*rmax_fit and at least
\* 4*rmax_fit - dr.
C2_MaxBelow4Rmax ==
  (FullSplice /\ rmax_fit < SeqMax(rdf.r)) =>
    LET dr == rdf.r[2] - rdf.r[1]
    IN /\ Len(r) > HeadLen
       /\ \A j \in (HeadLen + 1)..Len(r) : r[j] = rmin_fit + (j - HeadLen - 1) * dr
       /\ SeqMax(r) < 4 * rmax_fit
       /\ SeqMax(r) >= 4 * rmax_fit - dr

C2_Witness ==
  /\ FullSplice
  /\ rmax_fit < SeqMax(rdf.r)
  /\ Len(r) > HeadLen + 2
  /\ rdf.r[2] - rdf.r[1] > 1

\* C3: in full-splice mode the r sequence of the combined curve is increasing
\* with no r value occurring twice at the head/tail boundary, also when
\* rmin_fit coincides with a measured sample.
C3_NoDuplicateAtBoundary ==
  FullSplice => \A i \in 1..(Len(r) - 1) : r[i] < r[i + 1]

\* C4: in shift-only mode the combined curve has exactly the measured r grid
\* and its w at every point is the measured w minus a_fit[-1]; the stored
\* series and the fitted parameters are not modified.
C4_ShiftOnly ==
  [][(pc = "merge" /\ pc' = "virial" /\ args.shiftonly) =>
       /\ r' = rdf.r
       /\ Len(w') = Len(rdf.r)
       /\ \A i \in DOMAIN rdf.r : w'[i] = WSub(rdf.w[i], Last(a))
       /\ rdf' = rdf
       /\ a' = a]_vars

\* a shift-only merge with a non-zero shift
C4_Witness ==
  /\ Merged
  /\ args.shiftonly
  /\ Last(a) # WZero
  /\ Len(r) >= 2
  /\ \E i \in DOMAIN w : w[i] # rdf.w[i]

C6_UserGuessSeedsFit ==
  FitCalled =>
    fitcall.p0 = IF argv.guess # None THEN argv.guess
                 ELSE IF argv.pot \in DOMAIN potentiallist
                   THEN potentiallist[argv.pot][2]
                   ELSE None

TwoColumn == infile.exists /\ Len(infile.d[1]) = 2
NonPositiveG == TwoColumn /\ \E i \in DOMAIN infile.d : ~FPos(infile.d[i][2])

\* C7 as stated: loading a series with some g_i <= 0 fails; no series, fit,
\* combined curve or output file is produced from it.
C7_NonPositiveGRejected ==
  NonPositiveG =>
    /\ pc \in {"resolve", "load", "error"}
    /\ rdf = NoRdf
    /\ ~FitCalled
    /\ w = <<>>
    /\ outfile = <<>>

\* C7 amended: loading a two-column series never fails on its values: once
\* past the load the series exists, with w = +inf where g = 0 and w = nan
\* where g < 0 (before and after normalization and the splice's shift).
C7_NonPositiveGLoaded ==
  (TwoColumn /\ pc \notin {"resolve", "load"}) =>
    /\ rdf # NoRdf
    /\ Len(rdf.w) = Len(infile.d)
    /\ \A i \in DOMAIN infile.d :
         /\ infile.d[i][2][1] = 0 => rdf.w[i] = WInf
         /\ infile.d[i][2][1] < 0 => rdf.w[i] = WNaN

\* a run on a series with a g <= 0 outside the fit range that ends with output
C7_Witness ==
  /\ NonPositiveG
  /\ pc = "done"
  /\ outfile # <<>>
  /\ \A k \in DOMAIN fitcall.ydata : fitcall.ydata[k].cls = "fin"

\* C8: the result holds 'mlmol/g2' iff both molar masses are > 0; when it is
\* absent the summary shows NaN; hs, tot, reduced, hsrange = [0, min r] and
\* range = [0, max r] are present in both cases.
C8_ConvertedField ==
  pc = "save" =>
    /\ "mlmol/g2" \in DOMAIN B2 <=> (args.mw[1] > 0 /\ args.mw[2] > 0)
    /\ "mlmol/g2" \notin DOMAIN B2 => summary.B2[2] = <<"NaN">>
    /\ "mlmol/g2" \in DOMAIN B2 => summary.B2[2] = B2["mlmol/g2"]
    /\ {"hs", "tot", "reduced", "hsrange", "range"} \subseteq DOMAIN B2
    /\ B2["hsrange"] = <<0, SeqMin(r)>>
    /\ B2["range"] = <<0, SeqMax(r)>>

\* one mass positive, the other negative
C8_Witness ==
  /\ pc = "save"
  /\ args.mw[1] > 0
  /\ args.mw[2] < 0
  /\ "mlmol/g2" \notin DOMAIN B2

Scale == IF args.nm THEN NmFactor ELSE 1
NormPower == IF args.norm = "2d" THEN 1 ELSE IF args.norm = "3d" THEN 2 ELSE 0
ExpectR(i) == Scale * infile.d[i][1]
ExpectG(i) == FDiv(infile.d[i][2], FInt(IPow(ExpectR(i), NormPower)))

\* C9: r is rescaled before any other processing, then g is normalized by the
\* powers of the rescaled r, then the series is sliced and fitted, then
\* spliced, then integrated: the fit sees only normalized, rescaled data.
C9_StepOrder ==
  /\ pc = "normalize" =>
       \A i \in DOMAIN infile.d : rdf.r[i] = ExpectR(i) /\ rdf.g[i] = infile.d[i][2]
  /\ (pc \in {"slice", "fit"} \/ FitCalled) =>
       \A i \in DOMAIN infile.d : rdf.r[i] = ExpectR(i) /\ rdf.g[i] = ExpectG(i)
  /\ pc \in {"resolve", "load", "convert", "normalize", "slice"} =>
       r = <<>> /\ ~FitCalled
  /\ FitCalled =>
       /\ Len(fitcall.ydata) = Len(fitcall.xdata)
       /\ \A k \in DOMAIN fitcall.xdata :
            \E i \in DOMAIN infile.d :
              /\ fitcall.xdata[k] = ExpectR(i)
              /\ fitcall.ydata[k] = WNeg(log(ExpectG(i)))
              /\ rmin_fit <= ExpectR(i) /\ ExpectR(i) <= rmax_fit
  /\ w # <<>> => FitCalled /\ Merged
  /\ DOMAIN B2 # {} => w # <<>>

\* a fit on data that was rescaled and normalized
C9_Witness ==
  /\ pc = "merge"
  /\ args.nm
  /\ args.norm = "3d"
  /\ Len(fitcall.xdata) >= 2

\* C10: for r with a positive smallest value and w = 0 at every point,
\* tot = hs, reduced = 1 and hs = 2*pi/3 * min(r)^3.
C10_IdealGas ==
  (pc = "save" /\ SeqMin(r) > 0 /\ \A i \in DOMAIN w : w[i] = WZero) =>
    /\ B2["hs"] = FInt(HsCoef * SeqMin(r) * SeqMin(r) * SeqMin(r))
    /\ B2["tot"] = B2["hs"]
    /\ B2["reduced"] = FOne

C10_Witness ==
  /\ pc = "save"
  /\ Len(r) >= 2
  /\ SeqMin(r) > 0
  /\ r[1] # SeqMin(r)
  /\ \A i \in DOMAIN w : w[i] = WZero
  /\ B2["tot"] = B2["hs"]

====
